---- MODULE Spec2Model ----
(***************************************************************************)
(* Model of lib/decks.py: the card classes (AbstractCard, Ace, FaceCard,   *)
(* NumberCard) and the deck classes (AbstractDeck, StdDeck, CardShoe).     *)
(*                                                                         *)
(* Three specifications share the variables:                               *)
(*   Spec      a caller builds one deck and uses the operations the deck   *)
(*             classes define (remove_top, remaining_cards);               *)
(*   SpecList  as Spec, plus mutators a deck inherits from list, for a     *)
(*             bounded number of calls;                                    *)
(*   SpecCard  a caller constructs two cards and compares them.            *)
(* Python sequences are 0-based, TLA+ sequences 1-based: index i of the    *)
(* source is index i+1 here.                                               *)
(***************************************************************************)
EXTENDS Integers, Sequences, FiniteSets, TLC

VARIABLES
    pc,        \* "new": no deck yet; "built": __init__ returned; "failed": __init__ raised
    klass,     \* the class the caller instantiated
    kwrds,     \* the keyword arguments the caller passed
    deck,      \* the list content of the deck object (self)
    size,      \* self.size
    shuffles,  \* number of rd.shuffle(self) calls made by __init__
    op,        \* the last operation the caller applied
    ret,       \* what that operation returned or raised
    drawn,     \* the cards remove_top has returned so far, in order
    calls,     \* SpecList: number of calls made on the built deck
    cpc,       \* SpecCard: position of the card caller
    cx,        \* SpecCard: outcome of the first construction
    cy,        \* SpecCard: outcome of the second construction
    cmp        \* SpecCard: results of the comparisons of cx.card and cy.card

vars == <<pc, klass, kwrds, deck, size, shuffles, op, ret, drawn, calls,
          cpc, cx, cy, cmp>>
deckVars == <<pc, klass, kwrds, deck, size, shuffles, op, ret, drawn, calls>>
cardVars == <<cpc, cx, cy, cmp>>

(***************************************************************************)
(* Bounds of the model.                                                    *)
(***************************************************************************)
\* num_decks values a caller supplies range over -1 .. MaxDecks
MaxDecks == 2
\* seeds of the pseudo-random stream range over 0 .. MaxSeed
MaxSeed == 1
\* rd.randint(a, b) yields a .. a + MaxExtra, or b
MaxExtra == 1
\* SpecList: the caller makes at most MaxCalls calls on the built deck
MaxCalls == 3

(***************************************************************************)
(* Class constants.                                                        *)
(***************************************************************************)
RANKS == <<"A", "2", "3", "4", "5", "6", "7", "8", "9", "10", "J", "Q", "K">>
SUITS == <<"S", "D", "H", "C">>
FACECARDS == <<"J", "Q", "K">>
NUMBERCARDS == <<"2", "3", "4", "5", "6", "7", "8", "9", "10">>
CARDVALUE == 10

\* Python's None, for the integer-valued attributes
None == 0

\* x in tup
In(x, tup) == \E i \in DOMAIN tup : tup[i] = x

\* list(tup).index(x), 1-based
Index(tup, x) == CHOOSE i \in DOMAIN tup : tup[i] = x /\ \A j \in 1..(i - 1) : tup[j] # x

\* list.reverse()
Reverse(s) == [i \in 1..Len(s) |-> s[Len(s) + 1 - i]]

\* int(rank) for the decimal strings a NumberCard can hold
IntOf(str) ==
    CASE str = "2" -> 2 [] str = "3" -> 3 [] str = "4" -> 4 [] str = "5" -> 5
      [] str = "6" -> 6 [] str = "7" -> 7 [] str = "8" -> 8 [] str = "9" -> 9
      [] str = "10" -> 10

(***************************************************************************)
(* Cards.  A construction yields an outcome: the card, or the ValueError   *)
(* raised (its message).                                                   *)
(***************************************************************************)
NoCard == [cls |-> "", rank |-> "", suit |-> "", value |-> None, high_value |-> None,
           id |-> 0]

Ok(card) == [ok |-> TRUE, card |-> card, err |-> ""]
Raise(msg) == [ok |-> FALSE, card |-> NoCard, err |-> msg]

RankError == "Card objects must have a valid rank."
SuitError == "Card objects must have a valid suit."
FaceRankError == "FaceCard.rank must be J, Q, or K"
NumberRankError == "NumberCard.rank must be an integer"

\* AbstractCard.__init__
AbstractCardInit(cls, rank, suit) ==
    IF ~In(rank, RANKS) THEN Raise(RankError)
    ELSE IF ~In(suit, SUITS) THEN Raise(SuitError)
    ELSE Ok([cls |-> cls, rank |-> rank, suit |-> suit, value |-> None,
             high_value |-> None, id |-> 0])

\* Ace.__init__
Ace(suit) ==
    LET r == AbstractCardInit("Ace", "A", suit)
    IN  IF r.ok THEN Ok([r.card EXCEPT !.value = 1, !.high_value = 11]) ELSE r

\* variant: any card rank passes the test
FaceRankOkAny(rank) == In(rank, RANKS)
\* the rank test of FaceCard.__init__
FaceRankOk(rank) == In(rank, FACECARDS)

\* FaceCard.__init__
FaceCard(rank, suit) ==
    IF ~FaceRankOk(rank) THEN Raise(FaceRankError)
    ELSE LET r == AbstractCardInit("FaceCard", rank, suit)
         IN  IF r.ok THEN Ok([r.card EXCEPT !.value = CARDVALUE]) ELSE r

\* the rank test of NumberCard.__init__
NumberRankOk(rank) == In(rank, NUMBERCARDS)

\* NumberCard.__init__
NumberCard(rank, suit) ==
    IF ~NumberRankOk(rank) THEN Raise(NumberRankError)
    ELSE LET r == AbstractCardInit("NumberCard", rank, suit)
         IN  IF r.ok THEN Ok([r.card EXCEPT !.value = IntOf(r.card.rank)]) ELSE r

\* AbstractCard.__eq__
Eq(a, b) == IF <<a.rank, a.suit>> = <<b.rank, b.suit>> THEN TRUE ELSE FALSE

\* variant: the suits not reversed
LtSuitsForward == SUITS
\* the order of suits __lt__ compares by: SUITS reversed
LtSuits == Reverse(SUITS)

\* AbstractCard.__lt__
Lt(a, b) ==
    IF Eq(a, b) THEN FALSE
    ELSE LET ranks == RANKS
             suits == LtSuits
         IN  IF Index(ranks, a.rank) < Index(ranks, b.rank) THEN TRUE
             ELSE IF a.rank = b.rank /\ Index(suits, a.suit) < Index(suits, b.suit)
                  THEN TRUE
                  ELSE FALSE

\* AbstractCard.__le__
Le(a, b) == Eq(a, b) \/ Lt(a, b)

\* AbstractCard.__str__
Str(c) == c.rank \o "-" \o c.suit

(***************************************************************************)
(* The pseudo-random source (module random).  The value of a draw is a     *)
(* function of the seed of the run, the shuffle pass being made and the    *)
(* step of the pass, so that every seed gives one stream of draws.         *)
(* rd.shuffle is the Fisher-Yates pass of random.shuffle: for i from       *)
(* len-1 down to 1, swap x[i] and x[randbelow(i+1)].                       *)
(***************************************************************************)
\* randbelow(n) at step i of shuffle pass p in the run seeded s
RandBelow(n, s, p, i) ==
    (((s * 7919 + p * 104729 + i * 25173 + 13849) % 65536) \div 16) % n

\* x[i], x[j] = x[j], x[i]
Swap(x, i, j) == [x EXCEPT ![i] = x[j], ![j] = x[i]]

\* the steps i = hi, hi-1, ..., lo of one pass (split in halves, high half first)
RECURSIVE SwapSteps(_, _, _, _, _)
SwapSteps(x, hi, lo, s, p) ==
    IF Len(x) < 2 \/ hi < lo THEN x
    ELSE IF hi = lo THEN Swap(x, hi, RandBelow(hi, s, p, hi) + 1)
    ELSE LET mid == (hi + lo) \div 2
         IN  SwapSteps(SwapSteps(x, hi, mid + 1, s, p), mid, lo, s, p)

\* variant: a pass that loses the first element
ShuffleDrop(x, s, p) == Tail(SwapSteps(x, Len(x), 2, s, p))
\* rd.shuffle(x), as pass p of the run seeded s
Shuffle(x, s, p) == SwapSteps(x, Len(x), 2, s, p)

\* for i in range(r): rd.shuffle(self), the passes numbered p, p+1, ...
RECURSIVE ShuffleTimes(_, _, _, _)
ShuffleTimes(x, r, s, p) ==
    IF Len(x) = 0 \/ r <= 0 THEN x
    ELSE IF r = 1 THEN Shuffle(x, s, p)
    ELSE LET h == r \div 2
         IN  ShuffleTimes(ShuffleTimes(x, h, s, p), r - h, s, p + h)

\* the values rd.randint(a, b) is taken to return; none when b < a (it raises)
Randint(a, b) == {v \in a..b : v <= a + MaxExtra \/ v = b}

(***************************************************************************)
(* Decks.                                                                  *)
(***************************************************************************)
NoKwrds == [k \in {} |-> 0]

\* num_decks as AbstractDeck.__init__ reads it from kwrds
NumDecks(kw) == IF "num_decks" \in DOMAIN kw THEN kw["num_decks"] ELSE 1

\* the card the build loop makes for (rank, suit)
MakeCard(rank, suit) ==
    IF rank = "A" THEN Ace(suit)
    ELSE IF In(rank, NUMBERCARDS) THEN NumberCard(rank, suit)
    ELSE FaceCard(rank, suit)

\* the unshuffled deck: num_decks passes over SUITS x RANKS, each card a new object
BuildDeck(num_decks) ==
    LET per == Len(SUITS) * Len(RANKS)
        n == IF num_decks > 0 THEN num_decks * per ELSE 0
    IN  [k \in 1..n |->
            LET suit == SUITS[(((k - 1) % per) \div Len(RANKS)) + 1]
                rank == RANKS[((k - 1) % Len(RANKS)) + 1]
            IN  [MakeCard(rank, suit).card EXCEPT !.id = k]]

\* self.size as __init__ sets it
SizeOf(num_decks) == 52 * num_decks

\* variant: num_decks not overridden
StdDeckKwrdsKeep(kw) == kw
\* StdDeck.__init__: kwrds as passed on to AbstractDeck.__init__
StdDeckKwrds(kw) ==
    [k \in DOMAIN kw \cup {"num_decks"} |-> IF k = "num_decks" THEN 1 ELSE kw[k]]

\* variant: a default of one sub-deck
CardShoeKwrdsOne(kw) ==
    IF "num_decks" \notin DOMAIN kw
    THEN [k \in DOMAIN kw \cup {"num_decks"} |-> IF k = "num_decks" THEN 1 ELSE kw[k]]
    ELSE kw
\* CardShoe.__init__: kwrds as passed on to AbstractDeck.__init__
CardShoeKwrds(kw) ==
    IF "num_decks" \notin DOMAIN kw
    THEN [k \in DOMAIN kw \cup {"num_decks"} |-> IF k = "num_decks" THEN 6 ELSE kw[k]]
    ELSE kw

\* the kwrds AbstractDeck.__init__ receives when the caller instantiates cls
InitKwrds(cls, kw) ==
    CASE cls = "StdDeck" -> StdDeckKwrds(kw)
      [] cls = "CardShoe" -> CardShoeKwrds(kw)
      [] OTHER -> kw

Classes == {"AbstractDeck", "StdDeck", "CardShoe"}
KwrdInputs ==
    {NoKwrds, [jokers |-> 2]} \cup {[num_decks |-> n] : n \in (-1)..MaxDecks}
Seeds == 0..MaxSeed

NoRet == [kind |-> "none", card |-> NoCard, text |-> ""]
RetCard(c) == [kind |-> "card", card |-> c, text |-> ""]
RetStr(s) == [kind |-> "str", card |-> NoCard, text |-> s]
RetRaise(e) == [kind |-> "raise", card |-> NoCard, text |-> e]

\* AbstractDeck.__init__, entered through the class the caller names
New(cls, kw, seed) ==
    /\ pc = "new"
    /\ LET ikw == InitKwrds(cls, kw)
           num_decks == NumDecks(ikw)
           sz == SizeOf(num_decks)
           first == Shuffle(BuildDeck(num_decks), seed, 0)
       IN  \/ /\ Randint(0, sz) = {}
              /\ pc' = "failed"
              /\ deck' = <<>>
              /\ size' = 0
              /\ shuffles' = 1
              /\ ret' = RetRaise("ValueError")
           \/ \E r \in Randint(0, sz) :
                /\ pc' = "built"
                /\ deck' = ShuffleTimes(first, r, seed, 1)
                /\ size' = sz
                /\ shuffles' = 1 + r
                /\ ret' = NoRet
    /\ klass' = cls
    /\ kwrds' = kw
    /\ op' = "__init__"
    /\ UNCHANGED <<drawn, calls, cardVars>>

\* variant: pop() removes the last element
PopLast(x) == SubSeq(x, 1, Len(x) - 1)
\* list.pop(0): the list afterwards
Pop0(x) == Tail(x)

\* variant: pop() returns the last element
TopLast(x) == x[Len(x)]
\* list.pop(0): the element returned
Top(x) == x[1]

\* variant: an empty deck yields no card and no error
PopEmptyNone == RetCard(NoCard)
\* list.pop(0) on an empty list
PopEmpty == RetRaise("IndexError")

\* remove_top (AbstractDeck's, which StdDeck and CardShoe call through super())
RemoveTopCall ==
    /\ pc = "built"
    /\ op' = "remove_top"
    /\ \/ /\ Len(deck) = 0
          /\ ret' = PopEmpty
          /\ UNCHANGED <<deck, drawn>>
       \/ /\ Len(deck) > 0
          /\ ret' = RetCard(Top(deck))
          /\ deck' = Pop0(deck)
          /\ drawn' = Append(drawn, ret'.card)
    /\ UNCHANGED <<pc, klass, kwrds, size, shuffles, cardVars>>

\* variant: the two numbers swapped
RemainingSwapped(n, sz) == ToString(sz) \o " of " \o ToString(n) \o " cards remain"
\* the string remaining_cards formats from len(self) and self.size
Remaining(n, sz) == ToString(n) \o " of " \o ToString(sz) \o " cards remain"

\* remaining_cards
RemainingCardsCall ==
    /\ pc = "built"
    /\ op' = "remaining_cards"
    /\ ret' = RetStr(Remaining(Len(deck), size))
    /\ UNCHANGED <<pc, klass, kwrds, deck, size, shuffles, drawn, cardVars>>

RemoveTop == RemoveTopCall /\ UNCHANGED calls
RemainingCards == RemainingCardsCall /\ UNCHANGED calls

(***************************************************************************)
(* What a deck inherits from list (class AbstractDeck(list, ABC)): the     *)
(* mutators of list apply to a deck as to any list.                        *)
(***************************************************************************)
\* the cards a caller appends: new objects, not from the deck
AppendInputs == {[Ace("S").card EXCEPT !.id = 1000], [FaceCard("K", "C").card EXCEPT !.id = 1001]}

ListFrame == UNCHANGED <<pc, klass, kwrds, size, shuffles, drawn, cardVars>>

\* the caller makes one more call
Called == calls < MaxCalls /\ calls' = calls + 1

\* list.append(card)
ListAppend(card) ==
    /\ pc = "built"
    /\ Called
    /\ op' = "append"
    /\ deck' = Append(deck, card)
    /\ ret' = NoRet
    /\ ListFrame

\* list.pop(): the last element
ListPop ==
    /\ pc = "built"
    /\ Called
    /\ op' = "pop"
    /\ \/ /\ Len(deck) = 0
          /\ ret' = RetRaise("IndexError")
          /\ UNCHANGED deck
       \/ /\ Len(deck) > 0
          /\ ret' = RetCard(deck[Len(deck)])
          /\ deck' = SubSeq(deck, 1, Len(deck) - 1)
    /\ ListFrame

\* list.reverse()
ListReverse ==
    /\ pc = "built"
    /\ Called
    /\ op' = "reverse"
    /\ deck' = Reverse(deck)
    /\ ret' = NoRet
    /\ ListFrame

\* list.clear()
ListClear ==
    /\ pc = "built"
    /\ Called
    /\ op' = "clear"
    /\ deck' = <<>>
    /\ ret' = NoRet
    /\ ListFrame

(***************************************************************************)
(* The card caller: x = <class>(...); y = <class>(...); then x == y,       *)
(* x < y, y < x, x <= y, y <= x.  A construction that raises ends the run. *)
(***************************************************************************)
CardClasses == {"Ace", "FaceCard", "NumberCard"}
RankInputs == {RANKS[i] : i \in DOMAIN RANKS} \cup {"1", "11", "a"}
SuitInputs == {SUITS[i] : i \in DOMAIN SUITS} \cup {"s", "X"}
\* Ace takes no rank argument
NoArg == ""

\* the call cls(rank, suit), or Ace(suit)
Construct(cls, rank, suit) ==
    CASE cls = "Ace" -> Ace(suit)
      [] cls = "FaceCard" -> FaceCard(rank, suit)
      [] cls = "NumberCard" -> NumberCard(rank, suit)

\* the calls a caller can make
CardCalls ==
    {<<"Ace", NoArg, s>> : s \in SuitInputs}
      \cup ({"FaceCard", "NumberCard"} \X RankInputs \X SuitInputs)

Outcome(call) ==
    LET r == Construct(call[1], call[2], call[3])
    IN  [cls |-> call[1], rank |-> call[2], suit |-> call[3],
         ok |-> r.ok, card |-> r.card, err |-> r.err]

NoOutcome == [cls |-> "", rank |-> "", suit |-> "", ok |-> FALSE, card |-> NoCard, err |-> ""]
NoCmp == [eq |-> FALSE, lt |-> FALSE, gt |-> FALSE, le |-> FALSE, ge |-> FALSE]

ConstructX(call) ==
    /\ cpc = "x"
    /\ cx' = Outcome(call)
    /\ cpc' = IF cx'.ok THEN "y" ELSE "raised"
    /\ UNCHANGED <<cy, cmp, deckVars>>

ConstructY(call) ==
    /\ cpc = "y"
    /\ cy' = Outcome(call)
    /\ cpc' = IF cy'.ok THEN "cmp" ELSE "raised"
    /\ UNCHANGED <<cx, cmp, deckVars>>

Compare ==
    /\ cpc = "cmp"
    /\ cmp' = [eq |-> Eq(cx.card, cy.card),
               lt |-> Lt(cx.card, cy.card),
               gt |-> Lt(cy.card, cx.card),
               le |-> Le(cx.card, cy.card),
               ge |-> Le(cy.card, cx.card)]
    /\ cpc' = "done"
    /\ UNCHANGED <<cx, cy, deckVars>>

(***************************************************************************)
(* Specifications.                                                         *)
(***************************************************************************)
InitDeck ==
    /\ pc = "new"
    /\ klass = ""
    /\ kwrds = NoKwrds
    /\ deck = <<>>
    /\ size = 0
    /\ shuffles = 0
    /\ op = ""
    /\ ret = NoRet
    /\ drawn = <<>>
    /\ calls = 0

InitCards(at) ==
    /\ cpc = at
    /\ cx = NoOutcome
    /\ cy = NoOutcome
    /\ cmp = NoCmp

Init == InitDeck /\ InitCards("idle")

Next ==
    \/ \E cls \in Classes, kw \in KwrdInputs, seed \in Seeds : New(cls, kw, seed)
    \/ RemoveTop
    \/ RemainingCards

Spec == Init /\ [][Next]_vars

NextList ==
    \/ \E cls \in Classes, kw \in KwrdInputs, seed \in Seeds : New(cls, kw, seed)
    \/ RemoveTopCall /\ Called
    \/ RemainingCardsCall /\ Called
    \/ \E card \in AppendInputs : ListAppend(card)
    \/ ListPop
    \/ ListReverse
    \/ ListClear

SpecList == Init /\ [][NextList]_vars

InitCard == InitDeck /\ InitCards("x")

NextCard ==
    \/ \E call \in CardCalls : ConstructX(call)
    \/ \E call \in CardCalls : ConstructY(call)
    \/ Compare

SpecCard == InitCard /\ [][NextCard]_vars

(***************************************************************************)
(* Properties.                                                             *)
(***************************************************************************)
\* number of cards of seq with the given rank and suit
Count(seq, rank, suit) ==
    Cardinality({i \in DOMAIN seq : seq[i].rank = rank /\ seq[i].suit = suit})

\* seq holds exactly n cards of every rank and suit, and nothing else
Copies(seq, n) ==
    /\ Len(seq) = 52 * n
    /\ \A i \in DOMAIN RANKS, j \in DOMAIN SUITS : Count(seq, RANKS[i], SUITS[j]) = n

\* the elements of seq are pairwise distinct objects
DistinctObjects(seq) == Cardinality({seq[i].id : i \in DOMAIN seq}) = Len(seq)

\* the number of sub-decks the caller asked for: StdDeck has one, whatever is
\* passed; otherwise num_decks when passed, else 6 for a CardShoe and 1 for
\* an AbstractDeck
Asked ==
    IF klass = "StdDeck" THEN 1
    ELSE IF "num_decks" \in DOMAIN kwrds THEN kwrds["num_decks"]
    ELSE IF klass = "CardShoe" THEN 6
    ELSE 1

\* a deck of at least one sub-deck has been built
BuiltDeck == pc = "built" /\ Asked >= 1

\* C1: on a deck built with n >= 1 sub-decks (any class), the cards remove_top
\* returns are distinct objects, a draw fails only after all N = 52*n cards
\* were drawn, the N cards drawn hold n copies of every (rank, suit), and the
\* remove_top that follows N draws raises IndexError.
C1_DrawAll ==
    /\ [](BuiltDeck =>
            /\ DistinctObjects(drawn)
            /\ Len(drawn) <= 52 * Asked
            /\ (op = "remove_top" /\ ret.kind = "raise" => Len(drawn) = 52 * Asked)
            /\ (Len(drawn) = 52 * Asked => Copies(drawn, Asked) /\ deck = <<>>))
    /\ [][BuiltDeck /\ Len(drawn) = 52 * Asked /\ op' = "remove_top"
            => ret' = RetRaise("IndexError") /\ drawn' = drawn]_vars

\* C1 witness: a two-deck shoe was drawn to the end (104 cards) and the next
\* remove_top raised
C1_Witness ==
    /\ pc = "built" /\ klass = "CardShoe" /\ kwrds = [num_decks |-> 2]
    /\ Len(drawn) = 104 /\ op = "remove_top" /\ ret.kind = "raise"

\* C2: remove_top on a deck of N >= 1 cards returns the card that was at index
\* 0 and leaves the former cards 1..N-1, in the same order.
C2_RemoveTop ==
    [][pc = "built" /\ Len(deck) >= 1 /\ op' = "remove_top"
        => /\ ret' = RetCard(deck[1])
           /\ Len(deck') = Len(deck) - 1
           /\ \A i \in 1..Len(deck') : deck'[i] = deck[i + 1]
           /\ drawn' = Append(drawn, deck[1])]_vars

\* C2 witness: a draw from the middle of a deck returned a card
C2_Witness ==
    /\ pc = "built" /\ op = "remove_top" /\ ret.kind = "card"
    /\ Len(drawn) >= 2 /\ Len(deck) >= 2 /\ ret.card = drawn[Len(drawn)]

\* C3: remove_top on an empty deck raises IndexError, returns no card and
\* leaves the deck empty and size unchanged, so that later draws fail alike.
C3_EmptyDeck ==
    /\ [][pc = "built" /\ Len(deck) = 0 /\ op' = "remove_top"
            => /\ ret' = RetRaise("IndexError")
               /\ ret'.card = NoCard
               /\ deck' = deck /\ size' = size /\ drawn' = drawn]_vars
    /\ [][pc = "built" /\ Len(deck) = 0 => Len(deck') = 0 /\ pc' = "built"]_vars

\* C3 witness: a deck was drawn empty and a further remove_top raised
C3_Witness ==
    /\ pc = "built" /\ Len(deck) = 0 /\ Len(drawn) = 52
    /\ op = "remove_top" /\ ret = RetRaise("IndexError")

\* C4: StdDeck(...) always succeeds and yields 52 cards, size 52, every
\* (rank, suit) exactly once, whatever keywords were passed.
C4_StdDeck ==
    klass = "StdDeck" =>
        /\ pc = "built"
        /\ size = 52
        /\ op = "__init__" => Len(deck) = 52 /\ Copies(deck, 1) /\ DistinctObjects(deck)

\* C4 witness: StdDeck(num_decks=2) has just been built
C4_Witness ==
    /\ klass = "StdDeck" /\ op = "__init__" /\ kwrds = [num_decks |-> 2]
    /\ Len(deck) = 52

\* C5: CardShoe(num_decks=n), n >= 1, yields 52*n cards, size 52*n, n copies
\* of every (rank, suit); without num_decks, n is 6 (312 cards).
C5_CardShoe ==
    klass = "CardShoe" /\ op = "__init__" /\ Asked >= 1 =>
        /\ pc = "built"
        /\ size = 52 * Asked
        /\ Copies(deck, Asked)
        /\ ("num_decks" \notin DOMAIN kwrds => Len(deck) = 312 /\ size = 312)

\* C5 witness: CardShoe() has just been built with 312 cards, shuffled more
\* than once
C5_Witness ==
    /\ klass = "CardShoe" /\ op = "__init__" /\ kwrds = NoKwrds
    /\ Len(deck) = 312 /\ shuffles > 1

\* C6: once a deck is built, size keeps the value set at construction
\* (52 * num_decks), len is size minus the number of cards drawn, within
\* 0..size, and remaining_cards returns "<len> of <size> cards remain" and
\* changes nothing of the deck.
C6_Remaining ==
    /\ [](pc = "built" =>
            /\ size = 52 * Asked
            /\ Len(deck) = size - Len(drawn)
            /\ 0 <= Len(deck) /\ Len(deck) <= size
            /\ (op = "remaining_cards" =>
                  ret = RetStr(ToString(size - Len(drawn)) \o " of "
                                 \o ToString(52 * Asked) \o " cards remain")))
    /\ [][pc = "built" =>
            /\ size' = size
            /\ (op' = "remaining_cards" => deck' = deck /\ drawn' = drawn)]_vars

\* C6 witness: after one draw from a StdDeck, remaining_cards returned
\* "51 of 52 cards remain"
C6_Witness ==
    /\ klass = "StdDeck" /\ Len(drawn) = 1 /\ op = "remaining_cards"
    /\ ret.text = "51 of 52 cards remain"

\* the rank a call asks for: Ace's is fixed
AskedRank(o) == IF o.cls = "Ace" THEN "A" ELSE o.rank

\* the rank of a call is one its class accepts
RankAccepted(o) ==
    \/ o.cls = "Ace"
    \/ o.cls = "NumberCard" /\ o.rank \in {"2", "3", "4", "5", "6", "7", "8", "9", "10"}
    \/ o.cls = "FaceCard" /\ o.rank \in {"J", "Q", "K"}

SuitAccepted(o) == o.suit \in {"S", "D", "H", "C"}

RankErrors == {RankError, FaceRankError, NumberRankError}

\* what C7 says of one construction
ConstructionRight(o) ==
    /\ o.ok <=> RankAccepted(o) /\ SuitAccepted(o)
    /\ o.ok => o.card.rank = AskedRank(o) /\ o.card.suit = o.suit
    /\ ~o.ok => o.card = NoCard
    /\ ~o.ok => \/ o.err \in RankErrors /\ ~RankAccepted(o)
                \/ o.err = SuitError /\ ~SuitAccepted(o)
    /\ ~RankAccepted(o) => ~o.ok /\ o.err \in RankErrors
    /\ RankAccepted(o) /\ ~SuitAccepted(o) => ~o.ok /\ o.err = SuitError

\* C7: a card construction succeeds exactly when the rank is one its class
\* accepts and the suit is one of S, D, H, C, and the card then has that rank
\* and suit; otherwise no card is made and the error raised is of the kind
\* of an argument that is invalid: a rank error for a rank not accepted, the
\* suit error for a bad suit (the rank is tested first, so a call with both
\* invalid raises the rank error).
C7_Construction ==
    /\ cpc \in {"y", "cmp", "done", "raised"} => ConstructionRight(cx)
    /\ cpc \in {"cmp", "done"} \/ (cpc = "raised" /\ cx.ok) => ConstructionRight(cy)

\* C7 witness: a first card was made, and a second construction with a rank
\* its class accepts raised the suit error
C7_Witness ==
    /\ cpc = "raised" /\ cx.ok /\ cx.cls = "NumberCard" /\ cx.card.rank = "10"
    /\ ~cy.ok /\ cy.cls = "FaceCard" /\ cy.rank = "Q" /\ cy.err = SuitError

\* position of a rank in A, 2, ..., 10, J, Q, K and of a suit in S, D, H, C
RankPos(c) == CHOOSE i \in 1..13 : RANKS[i] = c.rank
SuitPos(c) == CHOOSE i \in 1..4 : <<"S", "D", "H", "C">>[i] = c.suit

\* a is before b: lower rank, or the same rank and a later suit
Before(a, b) ==
    \/ RankPos(a) < RankPos(b)
    \/ RankPos(a) = RankPos(b) /\ SuitPos(a) > SuitPos(b)

\* the 52 cards
AllCards == {MakeCard(RANKS[i], SUITS[j]).card : i \in DOMAIN RANKS, j \in DOMAIN SUITS}

DeckOps == {"remove_top", "remaining_cards"}

\* C9 as stated: whatever a caller applies to a built deck leaves the cards
\* unchanged or removes exactly the card at index 0.
C9_AnyCall ==
    [][pc = "built" => deck' = deck \/ (Len(deck) >= 1 /\ deck' = Tail(deck))]_vars

\* C9 amended: the operations the deck classes define (remove_top,
\* remaining_cards) leave the cards unchanged or remove exactly the card at
\* index 0; the list mutators a deck inherits are not so restricted.
C9_DeckOps ==
    [][pc = "built" /\ op' \in DeckOps
        => deck' = deck \/ (Len(deck) >= 1 /\ deck' = Tail(deck))]_vars

\* C9 witness: a deck operation was applied after an inherited mutator had
\* changed the deck
C9_Witness ==
    /\ pc = "built" /\ op = "remove_top" /\ ret.kind = "card" /\ calls >= 2
    /\ Len(deck) + Len(drawn) # size

\* C10: building a CardShoe of n >= 1 sub-decks shuffles it at least twice
\* and at most as many times as it has cards.
C10_ShuffleCount ==
    klass = "CardShoe" /\ BuiltDeck => 2 <= shuffles /\ shuffles <= size
====
